---- MODULE Spec2Model ----
(***************************************************************************)
(* Model of pkg/boot LinuxImage (mvdan/u-root-coreutils): Label, Rank,     *)
(* String, Edit, Load, loadLinuxImage and copyToFileIfNotRegular; of run   *)
(* and RunMain of pkg/cp; and of the blocklist filter of testPkgs          *)
(* (integration/gotests).                                                  *)
(*                                                                         *)
(* Go strings are sequences of tokens, byte contents are sequences of      *)
(* small integers.  An io.ReaderAt value is a record (see Reader below).   *)
(* The verbose flag only adds log output and a progress wrapper that       *)
(* passes the bytes through; it is not part of the state.                  *)
(***************************************************************************)
EXTENDS Integers, Sequences, FiniteSets, TLC

\* ---------------------------------------------------------------- bounds
MaxLen == 1      \* longest initrd / device-tree content enumerated
MaxLoads == 2    \* Load calls per behaviour
MaxEdits == 2    \* Edit calls per behaviour
MaxArgs == 3     \* most positional arguments of a cp invocation
MaxBlock == 3    \* longest blocklist enumerated

\* ------------------------------------------------------- program constants
O_RDONLY == 0
O_WRONLY == 1
O_RDWR == 2
GzMagic == 9     \* stands for the gzip container header

\* errors
NoErr == "nil"
errNilKernel == "kernel image is empty, nothing to execute"
ErrCreate == "createtemp failed"
ErrCopy == "copy failed"
ErrSync == "sync failed"
ErrOpen == "open failed"
ErrKexec == "kexec failed"
ErrInvalid == "invalid argument"

\* ------------------------------------------------------------------ state
VARIABLES
    li,         \* the LinuxImage: Name, Kernel, Initrd, Cmdline, BootRank, LoadSyscall, KexecOpts
    pc,         \* position of the Load call in progress ("idle" when none)
    mat,        \* the two copyToFileIfNotRegular calls of a Load: "k" and "i"
    k,          \* loadLinuxImage's local k (kernel *os.File)
    i,          \* loadLinuxImage's local i (initrd *os.File, Nil when none)
    openFiles,  \* ids of the *os.File objects that are open
    tmpFiles,   \* contents of the temporary files created so far, by number
    calls,      \* kexec syscalls issued by the Load call in progress / last Load
    sysErr,     \* result of the kexec syscall of this Load
    ret,        \* what the last operation returned to the caller
    trace,      \* steps taken by the Load call in progress / last Load
    entry,      \* the image as it was when the last Load was entered
    edits,      \* transforms passed to Edit so far, in call order
    loads,      \* number of Load calls so far
    built,      \* the LinuxImage as it was constructed
    cp,         \* one invocation of cp's RunMain (pkg/cp)
    pk          \* one call of testPkgs' blocklist filter (integration/gotests)

vars == <<li, pc, mat, k, i, openFiles, tmpFiles, calls, sysErr, ret, trace,
          entry, edits, loads, built, cp, pk>>

\* ---------------------------------------------------------------- readers
\* An io.ReaderAt value.  kind: "nil" (nil interface), "file" (*os.File),
\* "mem" (an in-memory reader that is neither fmt.Stringer nor named),
\* "lazy" (a reader with a String method), "cat" (result of CatInitrds).
\* fd identifies the *os.File object; tmp > 0 names the temporary file a
\* handle created by copyToFileIfNotRegular refers to.
Reader(kind, fd, name, data, regular, tmpfs, am, parts) ==
    [kind |-> kind, fd |-> fd, name |-> name, data |-> data,
     regular |-> regular, tmpfs |-> tmpfs, am |-> am, tmp |-> 0,
     parts |-> parts]

Nil == Reader("nil", 0, <<>>, <<>>, FALSE, FALSE, O_RDONLY, <<>>)

File(fd, name, data, regular, tmpfs, am) ==
    Reader("file", fd, <<name>>, data, regular, tmpfs, am, <<>>)

Mem(data) == Reader("mem", 0, <<>>, data, FALSE, FALSE, O_RDONLY, <<>>)

Lazy(name, data) == Reader("lazy", 0, <<name>>, data, FALSE, FALSE, O_RDONLY, <<>>)

\* a handle on temporary file number t, opened by copyToFileIfNotRegular
TmpHandle(fd, t, am) ==
    [Reader("file", fd, <<"kexec-image">>, <<>>, TRUE, TRUE, am, <<>>)
        EXCEPT !.tmp = t]

\* CatInitrds(a, b): one logical source, a's bytes followed by b's bytes.
CatInitrds(a, b) == Reader("cat", 0, <<>>, <<>>, FALSE, FALSE, O_RDONLY, <<a, b>>)

\* -------------------------------------------------------------- stringer
\* stringer: String() if the value is a fmt.Stringer, else Name() if it is
\* named, else its type tag ("%T").
TypeTag(mod) ==
    CASE mod.kind = "nil" -> "<nil>"
      [] mod.kind = "mem" -> "*bytes.Reader"
      [] mod.kind = "cat" -> "boot.catReader"
      [] mod.kind = "lazy" -> "*uio.LazyOpenerAt"
      [] OTHER -> "*os.File"

stringer(mod) ==
    IF mod.kind = "lazy" THEN <<"lazy:">> \o mod.name
    ELSE IF mod.kind = "file" THEN mod.name
    ELSE <<TypeTag(mod)>>

\* strings.Join(elems, " ")
RECURSIVE Join(_)
Join(elems) ==
    IF Len(elems) = 0 THEN <<>>
    ELSE IF Len(elems) = 1 THEN elems[1]
    ELSE elems[1] \o <<" ">> \o Join(Tail(elems))

\* Label with the device tree described before the initrd
LabelDTBFirst(img) ==
    IF Len(img.Name) > 0 THEN img.Name
    ELSE LET kpart == << <<"kernel=">> \o stringer(img.Kernel) >>
             ipart == IF img.Initrd # Nil
                      THEN << <<"initrd=">> \o stringer(img.Initrd) >>
                      ELSE <<>>
             dpart == IF img.KexecOpts.DTB # Nil
                      THEN << <<"dtb=">> \o stringer(img.KexecOpts.DTB) >>
                      ELSE <<>>
         IN <<"Linux(">> \o Join(kpart \o dpart \o ipart) \o <<")">>

\* LinuxImage.Label
Label(img) ==
    IF Len(img.Name) > 0 THEN img.Name
    ELSE LET kpart == << <<"kernel=">> \o stringer(img.Kernel) >>
             ipart == IF img.Initrd # Nil
                      THEN << <<"initrd=">> \o stringer(img.Initrd) >>
                      ELSE <<>>
             dpart == IF img.KexecOpts.DTB # Nil
                      THEN << <<"dtb=">> \o stringer(img.KexecOpts.DTB) >>
                      ELSE <<>>
         IN <<"Linux(">> \o Join(kpart \o ipart \o dpart) \o <<")">>

\* LinuxImage.Rank
Rank(img) == img.BootRank

\* LinuxImage.String
String(img) ==
    <<"LinuxImage(", "Name:">> \o img.Name
      \o <<"Kernel:">> \o stringer(img.Kernel)
      \o <<"Initrd:">> \o stringer(img.Initrd)
      \o <<"Cmdline:">> \o img.Cmdline
      \o <<"KexecOpts:">> \o stringer(img.KexecOpts.DTB) \o <<")">>

\* ------------------------------------------------------------ byte sources
\* a read succeeds on an in-memory source, on an open file that was not
\* opened write-only, and on a composed source whose parts can be read
RECURSIVE Readable(_)
Readable(r) ==
    CASE r.kind = "nil" -> FALSE
      [] r.kind = "file" -> r.fd \in openFiles /\ r.am # O_WRONLY
      [] r.kind = "cat" -> Readable(r.parts[1]) /\ Readable(r.parts[2])
      [] OTHER -> TRUE

\* the bytes a source yields when read from offset 0 to its end (uio.Reader)
RECURSIVE Bytes(_)
Bytes(r) ==
    CASE r.kind = "cat" -> Bytes(r.parts[1]) \o Bytes(r.parts[2])
      [] r.kind = "file" /\ r.tmp > 0 -> tmpFiles[r.tmp]
      [] OTHER -> r.data

IsGzip(data) == Len(data) > 0 /\ data[1] = GzMagic

Gunzip(data) == Tail(data)

\* util.TryGzipFilter: an in-memory reader over the decompressed bytes when
\* the source is in the gzip container format, the source itself otherwise.
TryGzipFilter(r) ==
    IF Readable(r) /\ IsGzip(Bytes(r)) THEN Mem(Gunzip(Bytes(r))) ELSE r

\* bitwise and / or on access-mode flags
RECURSIVE BitAnd(_, _)
BitAnd(a, b) ==
    IF a = 0 \/ b = 0 THEN 0
    ELSE (a % 2) * (b % 2) + 2 * BitAnd(a \div 2, b \div 2)

BitOr(a, b) == a + b - BitAnd(a, b)

\* --------------------------------------------------- copyToFileIfNotRegular
\* outcome of the three probes of the zero-copy test: f.Stat, mount.IsTmpRamfs
\* and unix.FcntlInt(F_GETFL); each may fail
EnvOK == [stat |-> TRUE, mount |-> TRUE, fcntl |-> TRUE]

Probes(r) ==
    IF r.kind # "file" THEN {EnvOK}
    ELSE IF r.fd \notin openFiles THEN {[EnvOK EXCEPT !.stat = FALSE]}
    ELSE {EnvOK, [EnvOK EXCEPT !.stat = FALSE], [EnvOK EXCEPT !.mount = FALSE],
          [EnvOK EXCEPT !.fcntl = FALSE]}

\* mount.IsTmpRamfs(f.Name()); its error is dropped, leaving false
IsTmpRamfs(r, env) == env.mount /\ r.tmpfs

\* CanReuse with the write test reduced to O_RDWR
CanReuseWriteOnly(r, env) ==
    /\ r.kind = "file"
    /\ env.stat /\ r.regular
    /\ IsTmpRamfs(r, env)
    /\ env.fcntl /\ BitAnd(r.am, O_RDWR) = 0

\* the condition under which the source file is returned as it is
CanReuse(r, env) ==
    /\ r.kind = "file"
    /\ env.stat /\ r.regular
    /\ IsTmpRamfs(r, env)
    /\ env.fcntl /\ BitAnd(r.am, BitOr(O_RDWR, O_WRONLY)) = 0

\* one call of copyToFileIfNotRegular: its position, its argument r, the probe
\* outcomes, the write handle f, the result (out, err), and n0, the number of
\* temporary files that existed when it was entered
\* and open0, the files that were open then
MatOff ==
    [pc |-> "off", r |-> Nil, env |-> EnvOK, f |-> Nil, out |-> Nil, err |-> NoErr,
     n0 |-> 0, open0 |-> {}]

MatStart(r) ==
    [MatOff EXCEPT !.pc = "check", !.r = r, !.n0 = Len(tmpFiles), !.open0 = openFiles]

\* the id of a newly opened *os.File
CallerFds == {1, 2, 3}

NewFd ==
    CHOOSE n \in 1..(Cardinality(openFiles \cup CallerFds) + 1) :
        /\ n \notin openFiles \cup CallerFds
        /\ \A m \in 1..(n - 1) : m \in openFiles \cup CallerFds

OpenedByLoad(fd) == fd \notin CallerFds

\* lines 123-140: return the source itself, or go on to copy it
Check(p) ==
    /\ mat[p].pc = "check"
    /\ \E env \in Probes(mat[p].r) :
          mat' = [mat EXCEPT ![p] =
                    IF CanReuse(mat[p].r, env)
                    THEN [@ EXCEPT !.pc = "ret", !.out = mat[p].r, !.env = env]
                    ELSE [@ EXCEPT !.pc = "create", !.env = env]]
    /\ UNCHANGED <<li, pc, k, i, openFiles, tmpFiles, calls, sysErr, ret, trace,
                   entry, edits, loads, built, cp, pk>>

\* CreateTemp with one fixed file name: the file is created when it does not
\* exist and truncated when it does
CreateTempFixedName(p) ==
    /\ mat[p].pc = "create"
    /\ \/ LET f == TmpHandle(NewFd, 1, O_RDWR)
          IN /\ tmpFiles' = IF tmpFiles = <<>> THEN <<<<>>>>
                             ELSE [tmpFiles EXCEPT ![1] = <<>>]
             /\ openFiles' = openFiles \cup {f.fd}
             /\ mat' = [mat EXCEPT ![p] = [@ EXCEPT !.pc = "copy", !.f = f, !.env = EnvOK]]
       \/ /\ mat' = [mat EXCEPT ![p] = [@ EXCEPT !.pc = "ret", !.err = ErrCreate, !.env = EnvOK]]
          /\ UNCHANGED <<tmpFiles, openFiles>>
    /\ UNCHANGED <<li, pc, k, i, calls, sysErr, ret, trace, entry, edits, loads, built, cp, pk>>

\* os.CreateTemp("", "kexec-image"): a new, empty, uniquely named file
\* opened read-write
CreateTemp(p) ==
    /\ mat[p].pc = "create"
    /\ \/ LET f == TmpHandle(NewFd, Len(tmpFiles) + 1, O_RDWR)
          IN /\ tmpFiles' = Append(tmpFiles, <<>>)
             /\ openFiles' = openFiles \cup {f.fd}
             /\ mat' = [mat EXCEPT ![p] = [@ EXCEPT !.pc = "copy", !.f = f, !.env = EnvOK]]
       \/ /\ mat' = [mat EXCEPT ![p] = [@ EXCEPT !.pc = "ret", !.err = ErrCreate, !.env = EnvOK]]
          /\ UNCHANGED <<tmpFiles, openFiles>>
    /\ UNCHANGED <<li, pc, k, i, calls, sysErr, ret, trace, entry, edits, loads, built, cp, pk>>

\* CopyInto that stops one byte short
CopyIntoShort(files, f, r) ==
    [files EXCEPT ![f.tmp] = SubSeq(Bytes(r), 1, Len(Bytes(r)) - 1)]

\* what io.Copy(f, rdr) leaves in the temporary file
CopyInto(files, f, r) == [files EXCEPT ![f.tmp] = Bytes(r)]

\* io.Copy(f, rdr); a failed copy is taken at its first read
Copy(p) ==
    /\ mat[p].pc = "copy"
    /\ \/ /\ Readable(mat[p].r)
          /\ tmpFiles' = CopyInto(tmpFiles, mat[p].f, mat[p].r)
          /\ mat' = [mat EXCEPT ![p] = [@ EXCEPT !.pc = "sync"]]
       \/ /\ mat' = [mat EXCEPT ![p] = [@ EXCEPT !.pc = "defer", !.err = ErrCopy]]
          /\ UNCHANGED tmpFiles
    /\ UNCHANGED <<li, pc, k, i, openFiles, calls, sysErr, ret, trace, entry,
                   edits, loads, built, cp, pk>>

\* f.Sync()
Sync(p) ==
    /\ mat[p].pc = "sync"
    /\ \/ mat' = [mat EXCEPT ![p] = [@ EXCEPT !.pc = "reopen"]]
       \/ mat' = [mat EXCEPT ![p] = [@ EXCEPT !.pc = "defer", !.err = ErrSync]]
    /\ UNCHANGED <<li, pc, k, i, openFiles, tmpFiles, calls, sysErr, ret, trace,
                   entry, edits, loads, built, cp, pk>>

\* the handle os.Open(f.Name()) returns
ReopenHandle(f) == TmpHandle(NewFd, f.tmp, O_RDONLY)

\* Reopen with the write handle closed before the file is opened again
ReopenClosingFirst(p) ==
    /\ mat[p].pc = "reopen"
    /\ \/ LET ro == ReopenHandle(mat[p].f)
          IN /\ openFiles' = (openFiles \ {mat[p].f.fd}) \cup {ro.fd}
             /\ mat' = [mat EXCEPT ![p] = [@ EXCEPT !.pc = "defer", !.out = ro]]
       \/ /\ mat' = [mat EXCEPT ![p] = [@ EXCEPT !.pc = "defer", !.err = ErrOpen]]
          /\ openFiles' = openFiles \ {mat[p].f.fd}
    /\ UNCHANGED <<li, pc, k, i, tmpFiles, calls, sysErr, ret, trace, entry,
                   edits, loads, built, cp, pk>>

\* readOnlyF, err := os.Open(f.Name())
Reopen(p) ==
    /\ mat[p].pc = "reopen"
    /\ \/ LET ro == ReopenHandle(mat[p].f)
          IN /\ openFiles' = openFiles \cup {ro.fd}
             /\ mat' = [mat EXCEPT ![p] = [@ EXCEPT !.pc = "defer", !.out = ro]]
       \/ /\ mat' = [mat EXCEPT ![p] = [@ EXCEPT !.pc = "defer", !.err = ErrOpen]]
          /\ UNCHANGED openFiles
    /\ UNCHANGED <<li, pc, k, i, tmpFiles, calls, sysErr, ret, trace, entry,
                   edits, loads, built, cp, pk>>

\* DeferClose that closes the write handle on the successful return only
DeferCloseOnSuccess(p) ==
    /\ mat[p].pc = "defer"
    /\ openFiles' = IF mat[p].err = NoErr THEN openFiles \ {mat[p].f.fd} ELSE openFiles
    /\ mat' = [mat EXCEPT ![p] = [@ EXCEPT !.pc = "ret"]]
    /\ UNCHANGED <<li, pc, k, i, tmpFiles, calls, sysErr, ret, trace, entry,
                   edits, loads, built, cp, pk>>

\* defer f.Close(): runs when copyToFileIfNotRegular returns after CreateTemp
DeferClose(p) ==
    /\ mat[p].pc = "defer"
    /\ openFiles' = openFiles \ {mat[p].f.fd}
    /\ mat' = [mat EXCEPT ![p] = [@ EXCEPT !.pc = "ret"]]
    /\ UNCHANGED <<li, pc, k, i, tmpFiles, calls, sysErr, ret, trace, entry,
                   edits, loads, built, cp, pk>>

copyToFileIfNotRegular(p) ==
    Check(p) \/ CreateTemp(p) \/ Copy(p) \/ Sync(p) \/ Reopen(p) \/ DeferClose(p)

\* ----------------------------------------------------------- loadLinuxImage
\* InjectDTB with the device tree put in front of the initrd
InjectDTBFirst(img) ==
    IF img.KexecOpts.DTB # Nil
    THEN IF img.Initrd # Nil
         THEN CatInitrds(img.KexecOpts.DTB, img.Initrd)
         ELSE img.KexecOpts.DTB
    ELSE img.Initrd

\* lines 195-202: the value li.Initrd is given before the initrd is materialized
InjectDTB(img) ==
    IF img.KexecOpts.DTB # Nil
    THEN IF img.Initrd # Nil
         THEN CatInitrds(img.Initrd, img.KexecOpts.DTB)
         ELSE img.KexecOpts.DTB
    ELSE img.Initrd

\* KernelMissing without the nil test
KernelMissingNever(img) == FALSE

\* line 186
KernelMissing(img) == img.Kernel = Nil

\* NeedsInitrd that never asks for the initrd
NeedsInitrdNever(img) == FALSE

\* line 205
NeedsInitrd(img) == img.Initrd # Nil

\* lines 226-233
LoadedLinuxImage(img, kf, if) ==
    [Name |-> img.Name, Kernel |-> kf, Initrd |-> if, Cmdline |-> img.Cmdline,
     LoadSyscall |-> img.LoadSyscall, KexecOpts |-> img.KexecOpts]

\* KexecCall with the test of LoadSyscall inverted
KexecCallInverted(img, loaded) ==
    IF ~img.LoadSyscall
    THEN <<"KexecLoad", loaded.Kernel, loaded.Initrd, loaded.Cmdline, loaded.KexecOpts>>
    ELSE <<"FileLoad", loaded.Kernel, loaded.Initrd, loaded.Cmdline>>

\* lines 249-252: the kexec syscall Load issues, with its arguments
KexecCall(img, loaded) ==
    IF img.LoadSyscall
    THEN <<"KexecLoad", loaded.Kernel, loaded.Initrd, loaded.Cmdline, loaded.KexecOpts>>
    ELSE <<"FileLoad", loaded.Kernel, loaded.Initrd, loaded.Cmdline>>

\* (*os.File).Close
CloseErr(h) == IF h = Nil \/ h.fd \notin openFiles THEN ErrInvalid ELSE NoErr

\* cleanup that closes the kernel only
cleanupKernelOnly(files, kf, if) == files \ {kf.fd}

\* lines 221-224: the files open after cleanup has run
cleanup(files, kf, if) == files \ {kf.fd, if.fd}

\* lines 247-252: what Load returns after the syscall; cleanup has no result
LoadResult(syserr, closeerrs) == syserr

\* what loadLinuxImage leaves open when the initrd cannot be materialized
\* (line 208 returns without closing k)
InitrdFailed(files, kf) == files

Returned(op, val) == [op |-> op, val |-> val]

\* KernelSource without the gzip filter
KernelSourceRaw(img) == img.Kernel

\* line 190: the reader handed to copyToFileIfNotRegular for the kernel
KernelSource(img) == TryGzipFilter(img.Kernel)

\* line 206: the reader handed to copyToFileIfNotRegular for the initrd
InitrdSource(img) == img.Initrd

\* Load is entered: line 243 calls loadLinuxImage, lines 186-190
LoadBegin ==
    /\ pc = "idle"
    /\ loads < MaxLoads
    /\ loads' = loads + 1
    /\ entry' = li
    /\ calls' = <<>>
    /\ sysErr' = NoErr
    /\ k' = Nil
    /\ i' = Nil
    /\ IF KernelMissing(li)
       THEN /\ ret' = Returned("Load", errNilKernel)
            /\ trace' = <<"Failed">>
            /\ mat' = [p \in {"k", "i"} |-> MatOff]
            /\ pc' = "idle"
       ELSE /\ ret' = Returned("Load", "running")
            /\ trace' = <<"KernelMaterializing">>
            /\ mat' = [p \in {"k", "i"} |->
                         IF p = "k" THEN MatStart(KernelSource(li)) ELSE MatOff]
            /\ pc' = "kernel"
    /\ UNCHANGED <<li, openFiles, tmpFiles, edits, built, cp, pk>>

\* lines 190-210: the kernel's copyToFileIfNotRegular has returned
KernelDone ==
    /\ pc = "kernel"
    /\ mat["k"].pc = "ret"
    /\ IF mat["k"].err # NoErr
       THEN /\ ret' = Returned("Load", mat["k"].err)
            /\ trace' = Append(trace, "Failed")
            /\ pc' = "idle"
            /\ mat' = [mat EXCEPT !["k"] = MatOff]
            /\ UNCHANGED <<li, k>>
       ELSE /\ k' = mat["k"].out
            /\ li' = [li EXCEPT !.Initrd = InjectDTB(li)]
            /\ IF NeedsInitrd(li')
               THEN /\ mat' = [mat EXCEPT !["k"] = MatOff,
                                             !["i"] = MatStart(InitrdSource(li'))]
                    /\ trace' = trace \o <<"KernelReady", "InitrdMaterializing">>
                    /\ pc' = "initrd"
               ELSE /\ trace' = Append(trace, "KernelReady")
                    /\ pc' = "dispatch"
                    /\ mat' = [mat EXCEPT !["k"] = MatOff]
            /\ UNCHANGED ret
    /\ UNCHANGED <<i, openFiles, tmpFiles, calls, sysErr, entry, edits, loads, built, cp, pk>>

\* lines 206-210: the initrd's copyToFileIfNotRegular has returned
InitrdDone ==
    /\ pc = "initrd"
    /\ mat["i"].pc = "ret"
    /\ IF mat["i"].err # NoErr
       THEN /\ ret' = Returned("Load", mat["i"].err)
            /\ trace' = Append(trace, "Failed")
            /\ openFiles' = InitrdFailed(openFiles, k)
            /\ pc' = "idle"
            /\ UNCHANGED i
       ELSE /\ i' = mat["i"].out
            /\ trace' = Append(trace, "InitrdReady")
            /\ pc' = "dispatch"
            /\ UNCHANGED <<ret, openFiles>>
    /\ mat' = [mat EXCEPT !["i"] = MatOff]
    /\ UNCHANGED <<li, k, tmpFiles, calls, sysErr, entry, edits, loads, built, cp, pk>>

\* lines 249-252: linux.KexecLoad or kexec.FileLoad; either may fail
Dispatch ==
    /\ pc = "dispatch"
    /\ calls' = Append(calls, KexecCall(li, LoadedLinuxImage(li, k, i)))
    /\ \E e \in {NoErr, ErrKexec} : sysErr' = e
    /\ trace' = Append(trace, "SyscallDispatch")
    /\ pc' = "cleanup"
    /\ UNCHANGED <<li, mat, k, i, openFiles, tmpFiles, ret, entry, edits, loads, built, cp, pk>>

\* line 247: the deferred cleanup runs, then Load returns
Cleanup ==
    /\ pc = "cleanup"
    /\ openFiles' = cleanup(openFiles, k, i)
    /\ ret' = Returned("Load", LoadResult(sysErr, <<CloseErr(k), CloseErr(i)>>))
    /\ trace' = Append(trace, IF sysErr = NoErr THEN "Succeeded" ELSE "Failed")
    /\ pc' = "idle"
    /\ UNCHANGED <<li, mat, k, i, tmpFiles, calls, sysErr, entry, edits, loads, built, cp, pk>>

Load ==
    \/ LoadBegin
    \/ \E p \in {"k", "i"} : copyToFileIfNotRegular(p)
    \/ KernelDone
    \/ InitrdDone
    \/ Dispatch
    \/ Cleanup

\* ------------------------------------------------------- the other methods
\* the locals and the record of the last Load are gone once the caller moves on
Forget(img) ==
    /\ mat' = [p \in {"k", "i"} |-> MatOff]
    /\ k' = Nil
    /\ i' = Nil
    /\ calls' = <<>>
    /\ sysErr' = NoErr
    /\ trace' = <<>>
    /\ entry' = img

\* the command line every image is built with
Cmdline0 == <<"console=ttyS0">>

\* the functions a caller passes to Edit
Transforms == {"append", "drop"}

Apply(f, cmdline) ==
    IF f = "append" THEN Append(cmdline, "quiet")
    ELSE IF Len(cmdline) > 0 THEN Tail(cmdline) ELSE cmdline

\* EditImage that applies f to the command line the image was built with
EditImageStale(img, f) == [img EXCEPT !.Cmdline = Apply(f, Cmdline0)]

\* lines 237-239: the image after Edit(f)
EditImage(img, f) == [img EXCEPT !.Cmdline = Apply(f, img.Cmdline)]

Edit ==
    /\ pc = "idle"
    /\ Len(edits) < MaxEdits
    /\ \E f \in Transforms :
          /\ li' = EditImage(li, f)
          /\ edits' = Append(edits, f)
          /\ Forget(EditImage(li, f))
    /\ ret' = Returned("Edit", NoErr)
    /\ UNCHANGED <<pc, openFiles, tmpFiles, loads, built, cp, pk>>

LabelCall ==
    /\ pc = "idle"
    /\ ret' = Returned("Label", Label(li))
    /\ Forget(li)
    /\ UNCHANGED <<li, pc, openFiles, tmpFiles, edits, loads, built, cp, pk>>

RankCall ==
    /\ pc = "idle"
    /\ ret' = Returned("Rank", Rank(li))
    /\ Forget(li)
    /\ UNCHANGED <<li, pc, openFiles, tmpFiles, edits, loads, built, cp, pk>>

StringCall ==
    /\ pc = "idle"
    /\ ret' = Returned("String", String(li))
    /\ Forget(li)
    /\ UNCHANGED <<li, pc, openFiles, tmpFiles, edits, loads, built, cp, pk>>

\* ------------------------------------------------------------ construction
\* the first n bytes of a content
Prefix(s, n) == SubSeq(s, 1, n)

\* the initrd contents start with the gzip header, the device-tree contents
\* do not
InitrdBytes == [j \in 1..(MaxLen + 1) |-> IF j = 1 THEN GzMagic ELSE 10 + j]

DTBBytes == [j \in 1..(MaxLen + 1) |-> 20 + j]

\* kernel sources: none, a reader with a String method, and files that
\* differ in content (gzip or not), file type, filesystem and access mode
Kernels ==
    {Nil, Lazy("bzImage", <<1, 2>>),
     File(1, "vmlinuz", <<GzMagic, 1, 2>>, TRUE, TRUE, O_RDONLY)}
    \cup {File(1, "vmlinuz", <<1, 2>>, TRUE, TRUE, am) : am \in {O_RDONLY, O_WRONLY, O_RDWR}}
    \cup {File(1, "vmlinuz", <<1, 2>>, FALSE, TRUE, O_RDONLY),
          File(1, "vmlinuz", <<1, 2>>, TRUE, FALSE, O_RDONLY)}

Initrds ==
    {Nil, File(2, "initramfs", <<10>>, TRUE, TRUE, O_RDONLY)}
    \cup {Mem(Prefix(InitrdBytes, n)) : n \in 0..MaxLen}

DTBs == {Nil} \cup {Mem(Prefix(DTBBytes, n)) : n \in 0..MaxLen}

Images ==
    [Name : {<<>>, <<"linux">>}, Kernel : Kernels, Initrd : Initrds,
     Cmdline : {Cmdline0}, BootRank : {0}, LoadSyscall : BOOLEAN,
     KexecOpts : [DTB : DTBs]]

\* the images whose command line is edited
EditImages ==
    {img \in Images : /\ img.Name = <<>>
                      /\ img.Kernel = Lazy("bzImage", <<1, 2>>)
                      /\ img.Initrd \in {Nil, Mem(Prefix(InitrdBytes, MaxLen))}
                      /\ img.KexecOpts.DTB \in {Nil, Mem(Prefix(DTBBytes, MaxLen))}}

\* the files the caller opened for the image
SourceFds(img) ==
    {r.fd : r \in {x \in {img.Kernel, img.Initrd, img.KexecOpts.DTB} : x.kind = "file"}}

InitWith(images) ==
    /\ li \in images
    /\ pc = "idle"
    /\ mat = [p \in {"k", "i"} |-> MatOff]
    /\ k = Nil
    /\ i = Nil
    /\ openFiles = SourceFds(li)
    /\ tmpFiles = <<>>
    /\ calls = <<>>
    /\ sysErr = NoErr
    /\ ret = Returned("new", NoErr)
    /\ trace = <<>>
    /\ entry = li
    /\ edits = <<>>
    /\ loads = 0
    /\ built = li

\* ------------------------------------------------------------------- cp
\* error values of pkg/cp: nil, *fs.PathError with its Path, any other error,
\* and unix.ENOTDIR
NilError == [kind |-> "nil", path |-> <<>>]

PathError(path) == [kind |-> "PathError", path |-> path]

OtherError == [kind |-> "error", path |-> <<>>]

eNotDir == [kind |-> "ENOTDIR", path |-> <<>>]

\* no cp invocation: RunMain's arguments and flags, run's locals (toStat,
\* todir, the loop position n, lastErr), the copies attempted so far, run's
\* result and RunMain's exit status and error output
CpOff ==
    [pc |-> "off", args |-> <<>>, recursive |-> FALSE, toStat |-> "none",
     todir |-> FALSE, n |-> 0, lastErr |-> NilError, copies |-> <<>>,
     runErr |-> NilError, exit |-> -1, stderr |-> <<>>]

\* no testPkgs call: the slice pkgs, the blocklist, the list go list gave
\* (orig), and the positions i and j of the two loops (counted from 1)
PkOff ==
    [pc |-> "off", pkgs |-> <<>>, blocklist |-> <<>>, orig |-> <<>>, i |-> 0, j |-> 0]

Init == InitWith(Images) /\ cp = CpOff /\ pk = PkOff

Next ==
    \/ Load
    \/ LabelCall
    \/ RankCall
    \/ StringCall

Spec == Init /\ [][Next]_vars

\* the same operations with Edit, on the images whose command line is edited
InitEdit == InitWith(EditImages) /\ cp = CpOff /\ pk = PkOff

NextEdit ==
    \/ Load
    \/ Edit
    \/ LabelCall
    \/ RankCall
    \/ StringCall

SpecEdit == InitEdit /\ [][NextEdit]_vars

\* two calls of copyToFileIfNotRegular running at the same time, each for a
\* source of its own; every step of one may come between two steps of the other
ConcSources ==
    {Mem(<<1>>), Mem(<<2, 3>>), Lazy("bzImage", <<1, 2>>),
     File(1, "vmlinuz", <<1, 2>>, TRUE, TRUE, O_RDONLY)}

ConcImage(r1, r2) ==
    [Name |-> <<>>, Kernel |-> r1, Initrd |-> r2, Cmdline |-> Cmdline0,
     BootRank |-> 0, LoadSyscall |-> FALSE, KexecOpts |-> [DTB |-> Nil]]

InitConc ==
    /\ \E r1, r2 \in ConcSources :
          /\ li = ConcImage(r1, r2)
          /\ openFiles = SourceFds(li)
          /\ mat = [p \in {"k", "i"} |->
                      [MatOff EXCEPT !.pc = "check",
                                     !.r = IF p = "k" THEN r1 ELSE r2,
                                     !.open0 = SourceFds(li)]]
    /\ pc = "conc"
    /\ k = Nil
    /\ i = Nil
    /\ tmpFiles = <<>>
    /\ calls = <<>>
    /\ sysErr = NoErr
    /\ ret = Returned("new", NoErr)
    /\ trace = <<>>
    /\ entry = li
    /\ edits = <<>>
    /\ loads = 0
    /\ built = li
    /\ cp = CpOff
    /\ pk = PkOff

NextConc == \E p \in {"k", "i"} : copyToFileIfNotRegular(p)

SpecConc == InitConc /\ [][NextConc]_vars

\* --------------------------------------------------------- cp: run, RunMain
\* paths are sequences of components; an absolute path starts with "/"
IsAbs(name) == name[1] = "/"

Base(name) == <<name[Len(name)]>>

JoinPath(dir, name) == dir \o name

\* params.Dir of the invocation
Dir == <<"/", "work">>

\* lines 165-170
MkAbs(name) == IF IsAbs(name) THEN name ELSE JoinPath(Dir, name)

\* the file names given on the command line: a relative and an absolute one
Names == {<<"a">>, <<"/", "b">>}

ArgLists == UNION {[1..n -> Names] : n \in 0..MaxArgs}

\* the directory test that lets three arguments through
TooManyForFileLax(args, todir) == Len(args) > 3 /\ ~todir

\* line 110
TooManyForFile(args, todir) == Len(args) > 2 /\ ~todir

\* line 105: from, to := args[:len(args)-1], args[len(args)-1]
From(args) == SubSeq(args, 1, Len(args) - 1)

To(args) == args[Len(args)]

\* lines 132-135
Dst(args, todir, file) ==
    IF todir THEN JoinPath(To(args), Base(file)) ELSE To(args)

\* what opts.Copy or opts.CopyTree may return: nil, a PathError on the
\* source, on the destination or (CopyTree) on a file below the source, or
\* another error
CopyOutcomes(recursive, absFile, absDst) ==
    {NilError, PathError(absFile), PathError(absDst), OtherError}
    \cup (IF recursive THEN {PathError(JoinPath(absFile, <<"sub">>))} ELSE {})

\* lines 143-152: the original path is put back into a PathError
OriginalPath(err, file, dst) ==
    IF err.kind # "PathError" THEN err
    ELSE IF err.path = MkAbs(file) THEN PathError(file)
    ELSE IF err.path = MkAbs(dst) THEN PathError(dst)
    ELSE err

\* lastErr that keeps the first error
LastErrFirst(prev, err) == IF prev # NilError THEN prev ELSE err

\* lines 139-142: lastErr is assigned in every iteration
LastErr(prev, err) == err

\* lines 172-196: the flags are parsed; with a parse error or fewer than two
\* arguments RunMain returns at once
RunMainParse ==
    /\ cp.pc = "off"
    /\ \E parse \in {"ok", "help", "bad"}, args \in ArgLists, recursive \in BOOLEAN :
          cp' = IF parse = "help" THEN [cp EXCEPT !.pc = "done", !.exit = 0]
                ELSE IF parse = "bad" THEN [cp EXCEPT !.pc = "done", !.exit = 2]
                ELSE IF Len(args) < 2
                     THEN [cp EXCEPT !.pc = "done", !.args = args, !.exit = 0,
                                     !.stderr = <<"usage">>]
                     ELSE [cp EXCEPT !.pc = "run", !.args = args, !.recursive = recursive]
    /\ UNCHANGED <<li, pc, mat, k, i, openFiles, tmpFiles, calls, sysErr, ret, trace,
                   entry, edits, loads, built, pk>>

\* lines 104-112: os.Stat(to) and the directory test
RunStat ==
    /\ cp.pc = "run"
    /\ \E st \in {"dir", "file", "error"} :
          LET todir == st = "dir"
          IN cp' = IF TooManyForFile(cp.args, todir)
                   THEN [cp EXCEPT !.pc = "exit", !.toStat = st, !.todir = todir,
                                   !.runErr = eNotDir]
                   ELSE [cp EXCEPT !.pc = "loop", !.toStat = st, !.todir = todir,
                                   !.n = 1, !.lastErr = NilError]
    /\ UNCHANGED <<li, pc, mat, k, i, openFiles, tmpFiles, calls, sysErr, ret, trace,
                   entry, edits, loads, built, pk>>

\* lines 131-152: one iteration of the loop over the sources
RunCopy ==
    /\ cp.pc = "loop"
    /\ cp.n <= Len(From(cp.args))
    /\ LET file == From(cp.args)[cp.n]
           dst == Dst(cp.args, cp.todir, file)
       IN \E err \in CopyOutcomes(cp.recursive, MkAbs(file), MkAbs(dst)) :
             cp' = [cp EXCEPT
                      !.n = @ + 1,
                      !.copies = Append(@, [src |-> MkAbs(file), dst |-> MkAbs(dst),
                                            err |-> err]),
                      !.lastErr = LastErr(@, OriginalPath(err, file, dst))]
    /\ UNCHANGED <<li, pc, mat, k, i, openFiles, tmpFiles, calls, sysErr, ret, trace,
                   entry, edits, loads, built, pk>>

\* line 154: return lastErr
RunReturn ==
    /\ cp.pc = "loop"
    /\ cp.n > Len(From(cp.args))
    /\ cp' = [cp EXCEPT !.pc = "exit", !.runErr = cp.lastErr]
    /\ UNCHANGED <<li, pc, mat, k, i, openFiles, tmpFiles, calls, sysErr, ret, trace,
                   entry, edits, loads, built, pk>>

\* lines 198-202: run's error is printed and makes the exit status 1
RunMainExit ==
    /\ cp.pc = "exit"
    /\ cp' = IF cp.runErr # NilError
             THEN [cp EXCEPT !.pc = "done", !.exit = 1, !.stderr = <<cp.runErr>>]
             ELSE [cp EXCEPT !.pc = "done", !.exit = 0]
    /\ UNCHANGED <<li, pc, mat, k, i, openFiles, tmpFiles, calls, sysErr, ret, trace,
                   entry, edits, loads, built, pk>>

RunMain ==
    \/ RunMainParse
    \/ RunStat
    \/ RunCopy
    \/ RunReturn
    \/ RunMainExit

\* one invocation of cp; no LinuxImage operation takes place
InitCp == InitWith({ConcImage(Nil, Nil)}) /\ cp = CpOff /\ pk = PkOff

NextCp == RunMain

SpecCp == InitCp /\ [][NextCp]_vars

\* ---------------------------------------------------------------- testPkgs
\* package paths, in the order go list prints them
PkgNames == <<"cmds/core/cmp", "cmds/core/dd", "cmds/core/ls", "cmds/core/wget">>

Range(s) == {s[n] : n \in 1..Len(s)}

\* the packages of a set, in go list's order
RECURSIVE Listed(_, _)
Listed(names, S) ==
    IF names = <<>> THEN <<>>
    ELSE (IF Head(names) \in S THEN <<Head(names)>> ELSE <<>>) \o Listed(Tail(names), S)

\* line 38: what go list may print
PkgLists == {Listed(PkgNames, S) : S \in SUBSET Range(PkgNames)}

\* lines 42-89: a blocklist names packages in any order, none twice
BlockLists ==
    {b \in UNION {[1..n -> Range(PkgNames)] : n \in 0..MaxBlock} :
        \A m, n \in 1..Len(b) : b[m] = b[n] => m = n}

\* line 93: append(pkgs[:i], pkgs[i+1:]...), with i counted from 1
RemoveAt(s, n) == SubSeq(s, 1, n - 1) \o SubSeq(s, n + 1, Len(s))

\* lines 22-89: testPkgs has the package list and the blocklist
TestPkgsBegin ==
    /\ pk.pc = "off"
    /\ \E pkgs \in PkgLists, blocklist \in BlockLists :
          pk' = [pc |-> "outer", pkgs |-> pkgs, blocklist |-> blocklist,
                 orig |-> pkgs, i |-> 1, j |-> 0]
    /\ UNCHANGED <<li, pc, mat, k, i, openFiles, tmpFiles, calls, sysErr, ret, trace,
                   entry, edits, loads, built, cp>>

\* line 90: i < len(pkgs), and line 98 when it is false
OuterTest ==
    /\ pk.pc = "outer"
    /\ pk' = IF pk.i <= Len(pk.pkgs)
             THEN [pk EXCEPT !.pc = "inner", !.j = 1]
             ELSE [pk EXCEPT !.pc = "done"]
    /\ UNCHANGED <<li, pc, mat, k, i, openFiles, tmpFiles, calls, sysErr, ret, trace,
                   entry, edits, loads, built, cp>>

\* lines 91-95: one iteration over the blocklist; pkgs[i] panics when i is
\* past the end of the slice
InnerStep ==
    /\ pk.pc = "inner"
    /\ pk.j <= Len(pk.blocklist)
    /\ pk' = IF pk.i > Len(pk.pkgs)
             THEN [pk EXCEPT !.pc = "panic"]
             ELSE IF pk.pkgs[pk.i] = pk.blocklist[pk.j]
             THEN [pk EXCEPT !.pkgs = RemoveAt(@, pk.i), !.j = @ + 1]
             ELSE [pk EXCEPT !.j = @ + 1]
    /\ UNCHANGED <<li, pc, mat, k, i, openFiles, tmpFiles, calls, sysErr, ret, trace,
                   entry, edits, loads, built, cp>>

\* line 90: i++ after the blocklist has been gone through
InnerEnd ==
    /\ pk.pc = "inner"
    /\ pk.j > Len(pk.blocklist)
    /\ pk' = [pk EXCEPT !.pc = "outer", !.i = @ + 1]
    /\ UNCHANGED <<li, pc, mat, k, i, openFiles, tmpFiles, calls, sysErr, ret, trace,
                   entry, edits, loads, built, cp>>

testPkgs ==
    \/ TestPkgsBegin
    \/ OuterTest
    \/ InnerStep
    \/ InnerEnd

\* one call of testPkgs; no LinuxImage operation takes place
InitPkgs == InitWith({ConcImage(Nil, Nil)}) /\ cp = CpOff /\ pk = PkOff

NextPkgs == testPkgs

SpecPkgs == InitPkgs /\ [][NextPkgs]_vars

\* ------------------------------------------------------------------ claims
LoadReturned == pc = "idle" /\ ret.op = "Load"

\* C1: after any Load call has returned, no file handle opened by that call
\* is still open; in particular the kernel handle is closed when the
\* materialization of the initrd fails.
C1_NoHandleLeftOpen ==
    LoadReturned => \A fd \in openFiles : ~OpenedByLoad(fd)

\* C2: Load on an image without a kernel returns the missing-kernel error
\* before any I/O: no temporary file exists, no handle is open beyond the
\* caller's, no kexec syscall was issued, no materialization was started and
\* the image (Initrd included, also with a DTB configured) is unchanged.
C2_MissingKernel ==
    (LoadReturned /\ entry.Kernel = Nil) =>
        /\ ret.val = errNilKernel
        /\ li = entry
        /\ tmpFiles = <<>>
        /\ openFiles = SourceFds(entry)
        /\ calls = <<>>
        /\ \A p \in {"k", "i"} : mat[p].pc = "off"
        /\ k = Nil /\ i = Nil

C2_Witness ==
    /\ LoadReturned
    /\ entry.Kernel = Nil
    /\ entry.KexecOpts.DTB # Nil
    /\ li.Initrd = Nil
    /\ ret.val = errNilKernel

\* the four conditions of the zero-copy path, on the source and on what the
\* probes of this call reported
FourConditions(m) ==
    /\ m.r.kind = "file"
    /\ m.env.stat /\ m.r.regular
    /\ m.env.mount /\ m.r.tmpfs
    /\ m.env.fcntl /\ m.r.am \notin {O_WRONLY, O_RDWR}

\* the call returned its own argument
ReturnedSource(m) == m.pc = "ret" /\ m.err = NoErr /\ m.out = m.r

\* C3: copyToFileIfNotRegular returns the source's own handle, having created
\* no temporary file, exactly when the source is a file, is regular, is on
\* tmpfs/ramfs and is not opened for writing; when a condition is false or
\* could not be confirmed it goes on to create a temporary file.
C3_ZeroCopyExactly ==
    \A p \in {"k", "i"} :
        /\ ReturnedSource(mat[p]) =>
              /\ FourConditions(mat[p])
              /\ Len(tmpFiles) = mat[p].n0
              /\ mat[p].f = Nil
        /\ mat[p].pc = "create" => ~FourConditions(mat[p])

C3_Witness ==
    /\ ReturnedSource(mat["k"])
    /\ mat["k"].r.fd = 1
    /\ Len(tmpFiles) = 0

\* a regular file on tmpfs/ramfs that is opened for writing
WritableTmpfsFile(r) ==
    r.kind = "file" /\ r.regular /\ r.tmpfs /\ r.am \in {O_WRONLY, O_RDWR}

ExpectedCall ==
    IF li.LoadSyscall
    THEN <<"KexecLoad", k, i, li.Cmdline, li.KexecOpts>>
    ELSE <<"FileLoad", k, i, li.Cmdline>>

\* C5: once kernel and initrd are materialized, Load issues exactly one kexec
\* syscall, selected by LoadSyscall alone: KexecLoad with kernel, initrd,
\* command line and the options when it is set, FileLoad with kernel, initrd
\* and command line when it is not; no second call follows, whether the
\* first succeeded or failed.
C5_OneSyscallByFlag ==
    /\ pc \in {"kernel", "initrd", "dispatch"} => calls = <<>>
    /\ pc = "cleanup" => calls = <<ExpectedCall>>
    /\ LoadReturned => calls \in {<<>>, <<ExpectedCall>>}
    /\ (LoadReturned /\ "SyscallDispatch" \in {trace[n] : n \in 1..Len(trace)})
          => calls = <<ExpectedCall>>
    /\ calls # <<>> => k # Nil /\ calls[1][2] = k /\ calls[1][3] = i

C5_Witness ==
    /\ LoadReturned
    /\ li.LoadSyscall
    /\ ret.val = ErrKexec
    /\ Len(calls) = 1
    /\ calls[1][1] = "KexecLoad"
    /\ Len(calls[1]) = 5

\* C6: when the kexec syscall fails, Load returns the syscall's error after
\* a single call, and on return the materialized kernel and initrd handles
\* are closed; an error from closing (a nil initrd cannot be closed) does not
\* replace the error returned.
C6_SyscallFailure ==
    (LoadReturned /\ sysErr # NoErr) =>
        /\ ret.val = sysErr
        /\ ret.val = ErrKexec
        /\ Len(calls) = 1
        /\ k # Nil
        /\ k.fd \notin openFiles
        /\ i # Nil => i.fd \notin openFiles
        /\ \A fd \in openFiles : OpenedByLoad(fd) => fd \notin {k.fd, i.fd}

C6_Witness ==
    /\ LoadReturned
    /\ sysErr = ErrKexec
    /\ k.tmp > 0
    /\ i.tmp > 0
    /\ ret.val = ErrKexec

\* the content of a source as configured (nothing when there is none)
Configured(r) == IF r = Nil THEN <<>> ELSE Bytes(r)

\* C7: with a DTB configured, the initrd a Load has materialized holds the
\* initrd the image had on entry (length a) followed by the DTB (length b):
\* a+b bytes, the first a the initrd's, the last b the DTB's; without an
\* initrd it holds the DTB alone; without a DTB it is the initrd unchanged,
\* and nothing when there is no initrd either.
C7_InitrdThenDTB ==
    pc = "dispatch" =>
        LET a == Configured(entry.Initrd)
            b == Configured(entry.KexecOpts.DTB)
        IN /\ entry.KexecOpts.DTB # Nil =>
                 /\ i # Nil
                 /\ Len(Bytes(i)) = Len(a) + Len(b)
                 /\ SubSeq(Bytes(i), 1, Len(a)) = a
                 /\ SubSeq(Bytes(i), Len(a) + 1, Len(a) + Len(b)) = b
           /\ (entry.KexecOpts.DTB = Nil /\ entry.Initrd # Nil) =>
                 /\ i # Nil
                 /\ Bytes(i) = a
                 /\ li.Initrd = entry.Initrd
           /\ (entry.KexecOpts.DTB = Nil /\ entry.Initrd = Nil) => i = Nil

C7_Witness ==
    /\ pc = "dispatch"
    /\ loads = 1
    /\ entry.Initrd = Mem(Prefix(InitrdBytes, MaxLen))
    /\ entry.KexecOpts.DTB = Mem(Prefix(DTBBytes, MaxLen))
    /\ Bytes(i) = Prefix(InitrdBytes, MaxLen) \o Prefix(DTBBytes, MaxLen)

\* the positions of a token in a string
Positions(str, tok) == {n \in 1..Len(str) : str[n] = tok}

\* C8: Label returns Name when Name is not empty, whatever the other fields;
\* otherwise "Linux(" ... ")" holding the kernel's description first, then the
\* initrd's exactly when there is an initrd, then the DTB's exactly when there
\* is a DTB.
C8_Label ==
    ret.op = "Label" =>
        /\ Len(li.Name) > 0 => ret.val = li.Name
        /\ Len(li.Name) = 0 =>
              /\ ret.val[1] = "Linux(" /\ ret.val[Len(ret.val)] = ")"
              /\ Positions(ret.val, "kernel=") = {2}
              /\ Cardinality(Positions(ret.val, "initrd=")) =
                    IF li.Initrd # Nil THEN 1 ELSE 0
              /\ Cardinality(Positions(ret.val, "dtb=")) =
                    IF li.KexecOpts.DTB # Nil THEN 1 ELSE 0
              /\ \A x \in Positions(ret.val, "initrd=") :
                    /\ x > 2
                    /\ ret.val[x - 1] = " "
                    /\ SubSeq(ret.val, x + 1, x + Len(stringer(li.Initrd)))
                          = stringer(li.Initrd)
              /\ \A x \in Positions(ret.val, "dtb=") :
                    /\ \A y \in Positions(ret.val, "initrd=") : y < x
                    /\ ret.val[x - 1] = " "
                    /\ SubSeq(ret.val, x + 1, Len(ret.val) - 1)
                          = stringer(li.KexecOpts.DTB)
              /\ SubSeq(ret.val, 3, 2 + Len(stringer(li.Kernel))) = stringer(li.Kernel)

C8_Witness ==
    /\ ret.op = "Label"
    /\ Len(li.Name) = 0
    /\ li.Kernel.kind = "lazy"
    /\ li.Initrd.kind = "file"
    /\ li.KexecOpts.DTB # Nil
    /\ ret.val = <<"Linux(", "kernel=", "lazy:", "bzImage", " ", "initrd=",
                   "initramfs", " ", "dtb=", "*bytes.Reader", ")">>

\* the transforms applied in order to a command line
RECURSIVE ApplyAll(_, _)
ApplyAll(fs, cmdline) ==
    IF fs = <<>> THEN cmdline ELSE ApplyAll(Tail(fs), Apply(Head(fs), cmdline))

\* C9: Edit(f) stores f(command line) and changes no other field of the image,
\* no file and no handle; the command line a Load hands to the kexec syscall
\* is the initial command line with all the transforms applied in call order.
C9_Edit ==
    /\ [][edits' # edits =>
            /\ li' = [li EXCEPT !.Cmdline = Apply(edits'[Len(edits')], li.Cmdline)]
            /\ UNCHANGED <<openFiles, tmpFiles, pc, loads>>]_vars
    /\ [](pc = "cleanup" =>
            /\ calls[1][4] = ApplyAll(edits, Cmdline0)
            /\ li.Cmdline = ApplyAll(edits, Cmdline0))

C9_Witness ==
    /\ pc = "cleanup"
    /\ edits = <<"append", "drop">>
    /\ calls[1][4] = <<"quiet">>

\* the step sequences of one Load invocation
LoadRuns ==
    {<<"Failed">>,
     <<"KernelMaterializing", "Failed">>,
     <<"KernelMaterializing", "KernelReady", "InitrdMaterializing", "Failed">>}
    \cup {<<"KernelMaterializing", "KernelReady", "InitrdMaterializing",
            "InitrdReady", "SyscallDispatch", e>> : e \in {"Succeeded", "Failed"}}
    \cup {<<"KernelMaterializing", "KernelReady", "SyscallDispatch", e>> :
             e \in {"Succeeded", "Failed"}}

IsPrefix(s, t) == Len(s) <= Len(t) /\ SubSeq(t, 1, Len(s)) = s

Steps == {trace[n] : n \in 1..Len(trace)}

\* C10: the steps of a Load come in the order kernel materialization, initrd
\* materialization (exactly when an initrd or a DTB is configured), syscall
\* dispatch; the syscall is dispatched at most once and only with every
\* required file materialized; a failed step is the last one.
C10_StepOrder ==
    /\ \E run \in LoadRuns : IsPrefix(trace, run)
    /\ ("Failed" \in Steps \/ "Succeeded" \in Steps) => pc = "idle"
    /\ "SyscallDispatch" \in Steps =>
          /\ Len(calls) = 1
          /\ k # Nil
          /\ "InitrdMaterializing" \in Steps <=>
                (entry.Initrd # Nil \/ entry.KexecOpts.DTB # Nil)
          /\ "InitrdMaterializing" \in Steps => i # Nil
    /\ "SyscallDispatch" \notin Steps => calls = <<>>
    /\ (pc = "idle" /\ "KernelReady" \in Steps /\ "InitrdMaterializing" \notin Steps)
          => "SyscallDispatch" \in Steps

C10_Witness ==
    trace = <<"KernelMaterializing", "KernelReady", "InitrdMaterializing",
              "InitrdReady", "SyscallDispatch", "Failed">>

\* the calls of copyToFileIfNotRegular that created a temporary file
OnCopyPath(p) == mat[p].f # Nil

\* C11 as stated: on the copy path the write handle is closed before the file
\* is reopened read-only, so a read-only handle on the temporary file is never
\* open together with the write handle.
C11_ClosedBeforeReopen ==
    \A p \in {"k", "i"} :
        (OnCopyPath(p) /\ mat[p].out # Nil /\ mat[p].out.fd \in openFiles)
            => mat[p].f.fd \notin openFiles

\* C11: on the copy path the steps come in the order create, copy, sync,
\* reopen read-only, close the write handle, return: the write handle stays
\* open from the creation until after the reopen and is closed at the return;
\* the file holds the whole source from the copy on; the handle returned is a
\* read-only one on the same file.
C11_CopyPathOrder ==
    \A p \in {"k", "i"} :
        LET m == mat[p]
        IN /\ OnCopyPath(p) => m.pc \in {"copy", "sync", "reopen", "defer", "ret"}
           /\ m.pc \in {"copy", "sync", "reopen", "defer"} =>
                 OnCopyPath(p) /\ m.f.fd \in openFiles /\ m.f.tmp = m.n0 + 1
           /\ m.pc \in {"create", "copy", "sync", "reopen"} => m.out = Nil
           /\ m.pc = "copy" => tmpFiles[m.f.tmp] = <<>>
           /\ m.pc \in {"sync", "reopen"} =>
                 m.err = NoErr /\ tmpFiles[m.f.tmp] = Bytes(m.r)
           /\ (OnCopyPath(p) /\ m.out # Nil) =>
                 /\ m.pc \in {"defer", "ret"}
                 /\ m.err = NoErr
                 /\ m.out.tmp = m.f.tmp
                 /\ m.out.am = O_RDONLY
                 /\ m.out.fd # m.f.fd
                 /\ m.out.fd \in openFiles
                 /\ tmpFiles[m.out.tmp] = Bytes(m.r)
           /\ (OnCopyPath(p) /\ m.pc = "ret") => m.f.fd \notin openFiles

C11_Witness ==
    /\ mat["k"].pc = "defer"
    /\ mat["k"].out # Nil
    /\ {mat["k"].f.fd, mat["k"].out.fd} \subseteq openFiles
    /\ mat["k"].out.tmp = mat["k"].f.tmp
    /\ tmpFiles[mat["k"].f.tmp] = <<1, 2>>

\* a call of copyToFileIfNotRegular that is about to return an error
MatFailed(p) == mat[p].pc = "ret" /\ mat[p].err # NoErr

\* C12: when the creation of the temporary file, the copy, the sync or the
\* read-only reopen fails, copyToFileIfNotRegular returns that error and no
\* handle; the write handle, if the file was created, is closed by then, and
\* the open files are those that were open when it was called.
C12_FailedMaterialization ==
    \A p \in {"k", "i"} :
        MatFailed(p) =>
            /\ mat[p].err \in {ErrCreate, ErrCopy, ErrSync, ErrOpen}
            /\ mat[p].out = Nil
            /\ mat[p].err = ErrCreate <=> ~OnCopyPath(p)
            /\ OnCopyPath(p) => mat[p].f.fd \notin openFiles
            /\ openFiles = mat[p].open0

C12_Witness ==
    /\ MatFailed("i")
    /\ mat["i"].err = ErrOpen
    /\ OnCopyPath("i")
    /\ mat["i"].f.fd \notin openFiles
    /\ k # Nil

\* what the transparent-decompression filter yields for a content
Filtered(data) == IF IsGzip(data) THEN Gunzip(data) ELSE data

\* the field of the image a call of copyToFileIfNotRegular is made for
FieldOf(p) == IF p = "k" THEN li.Kernel ELSE li.Initrd

\* a call of copyToFileIfNotRegular that copied its source and has the
\* read-only handle
Copied(p) == OnCopyPath(p) /\ mat[p].out # Nil

\* C13 as stated: the kernel and the initrd both go through the
\* transparent-decompression filter on the copy path, so either temporary file
\* holds the decompressed bytes of a gzip source.
C13_BothFiltered ==
    \A p \in {"k", "i"} :
        Copied(p) => tmpFiles[mat[p].out.tmp] = Filtered(Bytes(FieldOf(p)))

\* C13: on the copy path the kernel alone goes through the
\* transparent-decompression filter: its temporary file holds the decompressed
\* bytes of a gzip kernel and the identical bytes otherwise; the temporary
\* file of the initrd holds the bytes of the initrd source as they are,
\* gzip or not.
C13_KernelFiltered ==
    /\ Copied("k") => tmpFiles[mat["k"].out.tmp] = Filtered(Bytes(li.Kernel))
    /\ Copied("i") => tmpFiles[mat["i"].out.tmp] = Bytes(li.Initrd)

C13_Witness ==
    /\ Copied("i")
    /\ IsGzip(Bytes(li.Initrd))
    /\ tmpFiles[mat["i"].out.tmp] = Bytes(li.Initrd)
    /\ li.Kernel.kind = "file"
    /\ IsGzip(Bytes(li.Kernel))
    /\ k.tmp > 0
    /\ tmpFiles[k.tmp] = Gunzip(Bytes(li.Kernel))

\* C14: on an image with a DTB configured, the initrd every Load materializes,
\* the first or a later one, is the initrd the image was built with followed
\* by exactly one copy of the DTB.
C14_InjectionIdempotent ==
    (pc = "dispatch" /\ built.KexecOpts.DTB # Nil) =>
        /\ i # Nil
        /\ Bytes(i) = Configured(built.Initrd) \o Bytes(built.KexecOpts.DTB)

\* C15: a Load that returned an error has closed none of the files the caller
\* opened for the image.
C15_CallerFilesStayOpen ==
    (LoadReturned /\ ret.val # NoErr) => SourceFds(built) \subseteq openFiles

\* C16: without Edit, every Label call returns the label of the image as it
\* was built, whatever Load, Label, Rank and String calls came before.
C16_LabelStable ==
    ret.op = "Label" => ret.val = Label(built)

\* C17: two calls of copyToFileIfNotRegular on the copy path, interleaved in
\* any order, use two different temporary files, and the file of each holds
\* its own source once copied and when returned.
C17_DistinctTempFiles ==
    /\ (OnCopyPath("k") /\ OnCopyPath("i")) => mat["k"].f.tmp # mat["i"].f.tmp
    /\ \A p \in {"k", "i"} :
          /\ OnCopyPath(p) => mat[p].f.tmp \in 1..Len(tmpFiles)
          /\ mat[p].pc \in {"sync", "reopen"} => tmpFiles[mat[p].f.tmp] = Bytes(mat[p].r)
          /\ Copied(p) =>
                /\ mat[p].out.tmp = mat[p].f.tmp
                /\ tmpFiles[mat[p].out.tmp] = Bytes(mat[p].r)

C17_Witness ==
    /\ pc = "conc"
    /\ Copied("k") /\ Copied("i")
    /\ mat["k"].pc = "ret" /\ mat["i"].pc = "ret"
    /\ mat["k"].out.tmp = 2 /\ mat["i"].out.tmp = 1
    /\ tmpFiles = <<<<2, 3>>, <<1>>>>

\* run has returned (RunMain got past the argument count)
RunReturned == cp.pc \in {"exit", "done"} /\ cp.toStat # "none"

\* C18: run with more than two arguments and a last argument that is not an
\* existing directory returns ENOTDIR and has attempted no copy; RunMain
\* then exits with status 1.
C18_NotDir ==
    (RunReturned /\ Len(cp.args) > 2 /\ cp.toStat # "dir") =>
        /\ cp.runErr = eNotDir
        /\ cp.copies = <<>>
        /\ cp.n = 0
        /\ cp.pc = "done" => cp.exit = 1 /\ cp.stderr = <<eNotDir>>

C18_Witness ==
    /\ cp.pc = "done"
    /\ Len(cp.args) = 3
    /\ cp.toStat = "file"
    /\ cp.runErr = eNotDir
    /\ cp.copies = <<>>
    /\ cp.exit = 1

\* run has returned from its loop over the sources
LoopReturned == RunReturned /\ cp.n > 0

\* C19: a run that gets past the directory test attempts the copy of every
\* source, in argument order, whatever the earlier copies returned; it
\* returns what the copy of the last source returned (with the original path
\* in a PathError), nil when that one succeeded; RunMain then exits with status
\* 1 exactly when the copy of the last source failed.
C19_LastSourceDecides ==
    LoopReturned =>
        LET from == From(cp.args)
            last == cp.copies[Len(cp.copies)]
        IN /\ Len(cp.copies) = Len(from)
           /\ \A n \in 1..Len(from) :
                 /\ cp.copies[n].src = MkAbs(from[n])
                 /\ cp.copies[n].dst = MkAbs(Dst(cp.args, cp.todir, from[n]))
           /\ cp.runErr = OriginalPath(last.err, from[Len(from)],
                                       Dst(cp.args, cp.todir, from[Len(from)]))
           /\ cp.runErr = NilError <=> last.err = NilError
           /\ cp.pc = "done" => (cp.exit = 1 <=> last.err # NilError)
           /\ cp.pc = "done" => cp.exit \in {0, 1}

C19_Witness ==
    /\ cp.pc = "done"
    /\ Len(cp.copies) = 2
    /\ cp.copies[1].err = OtherError
    /\ cp.copies[2].err = NilError
    /\ cp.runErr = NilError
    /\ cp.exit = 0

\* the packages of a list that are not on a blocklist, in the list's order
NotBlocked(pkgs, blocklist) ==
    LET Keep(x) == x \notin Range(blocklist)
    IN SelectSeq(pkgs, Keep)

\* C20: the filter loop of testPkgs never indexes past the end of pkgs, and
\* it returns the packages of the list that are not on the blocklist, all of
\* them and in their original order.
C20_BlocklistFiltered ==
    /\ pk.pc # "panic"
    /\ pk.pc = "done" => pk.pkgs = NotBlocked(pk.orig, pk.blocklist)

====
